---- MODULE Spec2Model ----
(***************************************************************************)
(* rammer: a bag-of-words (word -> count map) built from Unicode-segmented *)
(* text, and a ham/spam model that scores a text from two such maps.       *)
(*                                                                         *)
(* A text is a sequence of characters.  A character is one of Chars; what  *)
(* the code asks of a character (its UAX #29 word-break class, whether it  *)
(* is white space, its uppercase mapping) is given by the operators below. *)
(* A Count is a u32, held as two 16-bit limbs <<hi, lo>> so that its full  *)
(* width is kept.                                                          *)
(***************************************************************************)
EXTENDS Integers, Sequences, FiniteSets, TLC

VARIABLES
    overflow_checks,  \* build profile: TRUE = debug (overflow panics), FALSE = release (wraps)
    pc,               \* position of the running scenario
    text,             \* the &str given to BagOfWords::from
    bow,              \* the BagOfWords under construction / queried
    src_a, src_b,     \* what the operands a and b are made from: a text or a map literal
    bow_a, bow_b, bow_c,  \* operands of combine
    bow_r,            \* result of the last combine
    docs,             \* the collection of BagOfWords that is collected
    seq_c, seq_i,     \* from_iter: the accumulator c and the index of the next item
    pending,          \* from_par_iter: indices of the items no folder has taken yet
    partials,         \* from_par_iter: partial results [acc, merged], merged = the items in acc
    idle,             \* from_par_iter: folders that hold the identity and nothing else
    par_r,            \* from_par_iter: the result [acc, merged]
    word,             \* the &str given to word_frequency
    freq, lib_freq,   \* what word_frequency returned (bag_of_words.rs, lib.rs)
    hs,               \* the HSModel: [ham_bow, spam_bow]
    nadds,            \* how many BagOfWords were added to the model
    query,            \* the &str given to text_spam_probability
    prob, lib_prob,   \* what text_spam_probability returned (hs_model.rs, lib.rs)
    spam_added,       \* the texts whose maps add_spam_bow was given, in call order
    ham_added,        \* the texts whose maps add_ham_bow was given, in call order
    ngrown            \* how many BagOfWords of texts a growing map has taken in

bow_vars == <<text, bow, src_a, src_b, bow_a, bow_b, bow_c, bow_r>>
collect_vars == <<docs, seq_c, seq_i, pending, partials, idle, par_r>>
freq_vars == <<word, freq, lib_freq>>
model_vars == <<hs, nadds, query, prob, lib_prob, spam_added, ham_added>>
grow_vars == <<ngrown>>
vars == <<overflow_checks, pc, bow_vars, collect_vars, freq_vars, model_vars, grow_vars>>

---------------------------------------------------------------------------
(* Bounds of the model *)

MaxLen == 5           \* longest text given to BagOfWords::from
MaxDocLen == 2        \* longest text of a document that is combined with others
NDocs == 3            \* most BagOfWords in a collection that is collected
MaxIdle == 2          \* most identity folders a parallel reduction holds at a time
MaxWordLen == 3       \* longest &str given to word_frequency
MaxAdds == 2          \* most BagOfWords added to a model
MaxQueryLen == 2      \* longest text given to text_spam_probability
MaxGrown == 2         \* most BagOfWords of texts a growing map takes in

---------------------------------------------------------------------------
(* Characters and strings *)

\* "a"/"A"  a cased letter, lower and upper      (Word_Break = ALetter)
\* " "      U+0020 SPACE                          (Word_Break = WSegSpace, White_Space)
\* "!"      punctuation or an emoji               (Word_Break = Other)
\* "^"      a combining mark such as U+0301       (Word_Break = Extend)
Chars == {"a", "A", " ", "!", "^"}

word_category(ch) ==
    CASE ch \in {"a", "A"} -> "ALetter"
      [] ch = " "          -> "WSegSpace"
      [] ch = "^"          -> "Extend"
      [] OTHER             -> "Other"

is_whitespace(ch) == ch = " "

\* char::to_uppercase: a sequence of characters
char_to_uppercase(ch) == IF ch = "a" THEN <<"A">> ELSE <<ch>>

RECURSIVE to_uppercase(_)
to_uppercase(s) ==
    IF s = <<>> THEN <<>>
    ELSE char_to_uppercase(Head(s)) \o to_uppercase(Tail(s))

\* str::trim().is_empty(): nothing but white space
trim_is_empty(s) == \A i \in 1..Len(s) : is_whitespace(s[i])

\* All strings over Chars of length at most n
StringsUpTo(n) == UNION {[1..k -> Chars] : k \in 0..n}

---------------------------------------------------------------------------
(* UnicodeSegmentation::split_word_bounds (UAX #29 word boundaries) *)

\* WB4: an Extend character that follows another character takes that
\* character's class; one at the start of the text stands for itself.
RECURSIVE class_before(_, _)
class_before(s, i) ==
    IF word_category(s[i]) = "Extend" /\ i > 1
    THEN class_before(s, i - 1)
    ELSE word_category(s[i])

\* No boundary between s[i] and s[i+1]
no_break(s, i) ==
    \/ word_category(s[i + 1]) = "Extend"                                       \* WB4
    \/ word_category(s[i]) = "WSegSpace" /\ word_category(s[i + 1]) = "WSegSpace" \* WB3d
    \/ class_before(s, i) = "ALetter" /\ word_category(s[i + 1]) = "ALetter"     \* WB5

\* The segments of s from index i on; the segment in progress began at start
RECURSIVE segments_from(_, _, _)
segments_from(s, start, i) ==
    IF i > Len(s) THEN <<>>
    ELSE IF i < Len(s) /\ no_break(s, i)
         THEN segments_from(s, start, i + 1)
         ELSE <<SubSeq(s, start, i)>> \o segments_from(s, i + 1, i + 1)

split_word_bounds(s) == segments_from(s, 1, 1)

\* .split_word_bounds().filter(|&s| !s.trim().is_empty())
words_of(s) == SelectSeq(split_word_bounds(s), LAMBDA w : ~trim_is_empty(w))

---------------------------------------------------------------------------
(* Count = u32 *)

Limb == 65536

u32(n) == <<n \div Limb, n % Limb>>

u32_MAX == <<Limb - 1, Limb - 1>>

wrapping_add(x, y) ==
    LET lo == x[2] + y[2]
        hi == x[1] + y[1] + (lo \div Limb)
    IN  <<hi % Limb, lo % Limb>>

add_overflows(x, y) == x[1] + y[1] + ((x[2] + y[2]) \div Limb) >= Limb

\* A panic ("attempt to add with overflow") unwinds the computation
Panic == [panic |-> TRUE]

\* x + y on Count under the build's overflow checks
AddCount(x, y) ==
    IF overflow_checks /\ add_overflows(x, y) THEN Panic ELSE wrapping_add(x, y)

---------------------------------------------------------------------------
(* BagOfWords *)

\* HashMap::new()
EmptyMap == [k \in {} |-> u32(0)]

\* BagOfWords::new()
new == [bow |-> EmptyMap]

keys(b) == DOMAIN b.bow

\* from_entry without the case normalisation of the key
from_entry_no_uppercase(b, w) ==
    LET k == w
        m == IF k \in DOMAIN b.bow THEN b.bow ELSE b.bow @@ (k :> u32(0))
    IN  IF AddCount(m[k], u32(1)) = Panic THEN Panic
        ELSE [bow |-> [m EXCEPT ![k] = AddCount(m[k], u32(1))]]

\* from_entry that overwrites the count instead of incrementing it
from_entry_no_increment(b, w) ==
    LET k == to_uppercase(w)
    IN  [bow |-> IF k \in DOMAIN b.bow THEN [b.bow EXCEPT ![k] = u32(1)]
                 ELSE b.bow @@ (k :> u32(1))]

\* *bow.bow.entry(w.to_uppercase()).or_insert(0) += 1
from_entry(b, w) ==
    LET k == to_uppercase(w)
        m == IF k \in DOMAIN b.bow THEN b.bow ELSE b.bow @@ (k :> u32(0))
    IN  IF AddCount(m[k], u32(1)) = Panic THEN Panic
        ELSE [bow |-> [m EXCEPT ![k] = AddCount(m[k], u32(1))]]

\* the loop of From<&str>: ws are the words still to count
RECURSIVE from_loop(_, _)
from_loop(b, ws) ==
    IF b = Panic \/ ws = <<>> THEN b
    ELSE from_loop(from_entry(b, Head(ws)), Tail(ws))

\* impl From<&str> for BagOfWords
From(s) == from_loop(new, words_of(s))

\* BagOfWords { bow: hm }: the field is public (and the struct Deserialize)
BagOfWords(hm) == [bow |-> hm]

\* the count of a key, an absent key counting as 0
count(bw, k) == IF k \in keys(bw) THEN bw.bow[k] ELSE u32(0)

\* combine's loop body with `*sv = v` in place of `*sv += v`
combine_entry_overwrite(self, k, v) ==
    IF k \in DOMAIN self.bow
    THEN [bow |-> [self.bow EXCEPT ![k] = v]]
    ELSE [bow |-> self.bow @@ (k :> v)]

\* combine's loop body with `or_insert(0)` in place of `or_insert(v)`
combine_entry_insert_zero(self, k, v) ==
    IF k \in DOMAIN self.bow
    THEN IF AddCount(self.bow[k], v) = Panic THEN Panic
         ELSE [bow |-> [self.bow EXCEPT ![k] = AddCount(self.bow[k], v)]]
    ELSE [bow |-> self.bow @@ (k :> u32(0))]

\* self.bow.entry(k).and_modify(|sv| *sv += v).or_insert(v)
combine_entry(self, k, v) ==
    IF k \in DOMAIN self.bow
    THEN IF AddCount(self.bow[k], v) = Panic THEN Panic
         ELSE [bow |-> [self.bow EXCEPT ![k] = AddCount(self.bow[k], v)]]
    ELSE [bow |-> self.bow @@ (k :> v)]

\* for (k, v) in other.bow { ... }: ks are the keys of other still to visit
RECURSIVE combine_loop(_, _, _)
combine_loop(self, other, ks) ==
    IF self = Panic \/ ks = {} THEN self
    ELSE LET k == CHOOSE x \in ks : TRUE
         IN  combine_loop(combine_entry(self, k, other.bow[k]), other, ks \ {k})

\* BagOfWords::combine; a panicked operand never reaches it
combine(self, other) ==
    IF self = Panic \/ other = Panic THEN Panic
    ELSE combine_loop(self, other, keys(other))

---------------------------------------------------------------------------
(* Construction from text *)

Texts == StringsUpTo(MaxLen)

\* no operand source chosen
NoSource == [kind |-> "none", val |-> <<>>]

\* no parallel result yet
NoResult == [acc |-> new, merged |-> {}]

\* Option<T>
None == [some |-> FALSE]

Some(x) == [some |-> TRUE, val |-> x]

\* HSModel::new(): both maps empty
hs_new == [ham_bow |-> new, spam_bow |-> new]

\* the frequency variables when no frequency is asked for
FreqIdle == word = <<>> /\ freq = None /\ lib_freq = None

\* the model variables when no model is built
ModelIdle ==
    /\ hs = hs_new /\ nadds = 0
    /\ query = <<>> /\ prob = None /\ lib_prob = None
    /\ spam_added = <<>> /\ ham_added = <<>>
    /\ ngrown = 0

\* the collection, frequency and model variables when only maps are at work
CollectIdle ==
    /\ docs = <<>>
    /\ seq_c = new /\ seq_i = 1
    /\ pending = {} /\ partials = {} /\ idle = 0
    /\ par_r = NoResult
    /\ FreqIdle /\ ModelIdle

InitFrom ==
    /\ overflow_checks \in BOOLEAN
    /\ pc = "text"
    /\ text \in Texts
    /\ bow = new
    /\ src_a = NoSource /\ src_b = NoSource
    /\ bow_a = new /\ bow_b = new /\ bow_c = new /\ bow_r = new
    /\ CollectIdle

FromStr ==
    /\ pc = "text"
    /\ bow' = From(text)
    /\ pc' = "built"
    /\ UNCHANGED <<overflow_checks, text, src_a, src_b, bow_a, bow_b, bow_c, bow_r, collect_vars, freq_vars, model_vars, grow_vars>>

NextFrom == FromStr

SpecFrom == InitFrom /\ [][NextFrom]_vars

---------------------------------------------------------------------------
(* Claims about construction from text *)

\* The word segments of the text and the indices of those that are kept
Segs == split_word_bounds(text)
Kept == {i \in 1..Len(Segs) : ~trim_is_empty(Segs[i])}

\* Two strings that differ at most in the case of their letters
same_letter(c, d) == c = d \/ {c, d} = {"a", "A"}
DifferOnlyInCase(u, v) ==
    Len(u) = Len(v) /\ \A i \in 1..Len(u) : same_letter(u[i], v[i])

\* C8: the map built from a text holds, for each canonical key, exactly the
\* number of non-whitespace word segments whose uppercase form is that key,
\* and no other key; whitespace-only segments are discarded, so a text with
\* no other segment gives BagOfWords::new().
C8_FromCountsSegments ==
    pc = "built" =>
        /\ bow # Panic
        /\ keys(bow) = {to_uppercase(Segs[i]) : i \in Kept}
        /\ \A k \in keys(bow) :
               bow.bow[k] = u32(Cardinality({i \in Kept : to_uppercase(Segs[i]) = k}))
        /\ (Kept = {} => bow = new)

\* C8 witness: a built map with a repeated key, a second key and a discarded
\* whitespace segment
C8_Witness ==
    /\ pc = "built"
    /\ Cardinality(keys(bow)) >= 2
    /\ \E k \in keys(bow) : bow.bow[k] = u32(2)
    /\ Cardinality(Kept) < Len(Segs)

\* C8 witness of the empty case: a non-empty text of white space gives new()
C8_WitnessBlank == pc = "built" /\ text # <<>> /\ bow = new

\* C9: segments that differ only in letter case are counted under one single
\* key, the uppercase form; every key is the uppercase form of a kept
\* segment, is fixed by to_uppercase, and is neither empty nor white space.
C9_CaseInsensitive ==
    pc = "built" =>
        /\ bow # Panic
        /\ \A i \in Kept :
               /\ {k \in keys(bow) : DifferOnlyInCase(k, Segs[i])} = {to_uppercase(Segs[i])}
               /\ bow.bow[to_uppercase(Segs[i])] =
                      u32(Cardinality({j \in Kept : DifferOnlyInCase(Segs[j], Segs[i])}))
        /\ \A k \in keys(bow) :
               /\ to_uppercase(k) = k
               /\ k # <<>>
               /\ ~trim_is_empty(k)
               /\ \E i \in Kept : k = to_uppercase(Segs[i])

\* C9 witness: "a A a" gives the single key "A" with count 3
C9_Witness ==
    /\ pc = "built"
    /\ text = <<"a", " ", "A", " ", "a">>
    /\ bow = [bow |-> (<<"A">> :> u32(3))]

---------------------------------------------------------------------------
(* Combining two BagOfWords *)

DocTexts == StringsUpTo(MaxDocLen)

\* HashMap<String, Count> values written as literals (or deserialized):
\* counts at the ends of the u32 range, a zero count, a key that is not uppercase
LiteralMaps ==
    { <<"A">> :> u32_MAX,
      <<"A">> :> <<Limb \div 2, 0>>,
      <<"A">> :> u32(0),
      <<"a">> :> u32(1),
      (<<"A">> :> u32_MAX) @@ (<<"!">> :> u32(1)) }

Sources ==
    {[kind |-> "text", val |-> t] : t \in DocTexts}
        \cup {[kind |-> "map", val |-> hm] : hm \in LiteralMaps}

\* the BagOfWords a source gives
Build(src) == IF src.kind = "text" THEN From(src.val) ELSE BagOfWords(src.val)

InitCombine ==
    /\ overflow_checks \in BOOLEAN
    /\ pc = "sources"
    /\ text = <<>>
    /\ bow = new
    /\ src_a \in Sources /\ src_b \in Sources
    /\ bow_a = new /\ bow_b = new /\ bow_c = new /\ bow_r = new
    /\ CollectIdle

\* the two operands are built
BuildOperands ==
    /\ pc = "sources"
    /\ bow_a' = Build(src_a)
    /\ bow_b' = Build(src_b)
    /\ pc' = "operands"
    /\ UNCHANGED <<overflow_checks, text, bow, src_a, src_b, bow_c, bow_r, collect_vars, freq_vars, model_vars, grow_vars>>

\* bow_r = bow_a.combine(bow_b)
CombineAB ==
    /\ pc = "operands"
    /\ bow_r' = combine(bow_a, bow_b)
    /\ pc' = "ab"
    /\ UNCHANGED <<overflow_checks, text, bow, src_a, src_b, bow_a, bow_b, bow_c, collect_vars, freq_vars, model_vars, grow_vars>>

NextCombine == BuildOperands \/ CombineAB

SpecCombine == InitCombine /\ [][NextCombine]_vars

\* z = x + y as natural numbers (no wrap), on the limbs
IsSum(x, y, z) ==
    \E carry \in {0, 1} :
        /\ x[2] + y[2] = z[2] + carry * Limb
        /\ x[1] + y[1] + carry = z[1]

\* C1: combine(a, b) and combine(b, a) have the same key set and the same
\* count for every key (and one panics exactly when the other does).
C1_CombineCommutative ==
    pc = "ab" =>
        LET ba == combine(bow_b, bow_a)
        IN  /\ (bow_r = Panic) = (ba = Panic)
            /\ bow_r # Panic =>
                   /\ keys(bow_r) = keys(ba)
                   /\ \A k \in keys(bow_r) : bow_r.bow[k] = ba.bow[k]

\* C1 witness: two different non-empty operands that share a key with
\* different counts, and each has a key the other lacks
C1_Witness ==
    /\ pc = "ab"
    /\ bow_r # Panic
    /\ \E k \in keys(bow_a) \cap keys(bow_b) : bow_a.bow[k] # bow_b.bow[k]
    /\ keys(bow_a) \ keys(bow_b) # {}
    /\ keys(bow_b) \ keys(bow_a) # {}

\* C6: the empty map is a left and right identity of combine.
C6_CombineIdentity ==
    pc = "ab" =>
        /\ bow_b = new => bow_r = bow_a
        /\ bow_a = new => bow_r = bow_b
        /\ (bow_a = new /\ bow_b = new) => bow_r = new

\* C6 witness: a non-empty map combined with new(), on either side
C6_Witness == pc = "ab" /\ bow_a # new /\ bow_b = new /\ bow_r = bow_a

C6_WitnessLeft == pc = "ab" /\ bow_a = new /\ bow_b # new /\ bow_r = bow_b

\* C7 (as claimed): the key set of combine(a, b) is the union of the key
\* sets and every count is count_a(key) + count_b(key), an absent key
\* counting 0.
C7_CombineAdditive ==
    pc = "ab" =>
        /\ bow_r # Panic
        /\ keys(bow_r) = keys(bow_a) \cup keys(bow_b)
        /\ \A k \in keys(bow_r) : IsSum(count(bow_a, k), count(bow_b, k), bow_r.bow[k])

\* C7, its corollary (as claimed): for operands built from two texts the
\* result is the map built from the two texts joined by a space.
C7_JoinedTexts ==
    (pc = "ab" /\ src_a.kind = "text" /\ src_b.kind = "text") =>
        bow_r = From(src_a.val \o <<" ">> \o src_b.val)

---------------------------------------------------------------------------
(* Combining three BagOfWords, and collecting a collection of them *)

\* The documents of a training run: texts and literal maps
CorpusSources ==
    { [kind |-> "text", val |-> <<>>],
      [kind |-> "text", val |-> <<"a">>],
      [kind |-> "text", val |-> <<"a", " ", "A">>],
      [kind |-> "text", val |-> <<"!", "a", "!">>],
      [kind |-> "text", val |-> <<"^", "a", " ", "!">>],
      [kind |-> "map", val |-> <<"A">> :> u32_MAX],
      [kind |-> "map", val |-> <<"A">> :> <<Limb \div 2, 0>>],
      [kind |-> "map", val |-> (<<"A">> :> u32(0)) @@ (<<"a">> :> u32(1))] }

CorpusBows == {Build(src) : src \in CorpusSources}

InitAssoc ==
    /\ overflow_checks \in BOOLEAN
    /\ pc = "operands"
    /\ text = <<>>
    /\ bow = new
    /\ src_a = NoSource /\ src_b = NoSource
    /\ bow_a \in CorpusBows /\ bow_b \in CorpusBows /\ bow_c \in CorpusBows
    /\ bow_r = new
    /\ CollectIdle

\* bow_r = bow_r.combine(bow_c), after bow_r = bow_a.combine(bow_b)
CombineC ==
    /\ pc = "ab"
    /\ bow_r' = combine(bow_r, bow_c)
    /\ pc' = "ab_c"
    /\ UNCHANGED <<overflow_checks, text, bow, src_a, src_b, bow_a, bow_b, bow_c, collect_vars, freq_vars, model_vars, grow_vars>>

NextAssoc == CombineAB \/ CombineC

SpecAssoc == InitAssoc /\ [][NextAssoc]_vars

\* C2: combine(combine(a, b), c) equals combine(a, combine(b, c)) key by key
\* (and one panics exactly when the other does).
C2_CombineAssociative ==
    pc = "ab_c" =>
        LET a_bc == combine(bow_a, combine(bow_b, bow_c))
        IN  /\ (bow_r = Panic) = (a_bc = Panic)
            /\ bow_r # Panic =>
                   /\ keys(bow_r) = keys(a_bc)
                   /\ \A k \in keys(bow_r) : bow_r.bow[k] = a_bc.bow[k]

\* C2 witness: three different maps; a key of a and c that b lacks, and a
\* key that all three hold
C2_Witness ==
    /\ pc = "ab_c"
    /\ bow_r # Panic
    /\ Cardinality({bow_a, bow_b, bow_c}) = 3
    /\ (keys(bow_a) \cap keys(bow_c)) \ keys(bow_b) # {}
    /\ keys(bow_a) \cap keys(bow_b) \cap keys(bow_c) # {}

---------------------------------------------------------------------------
(* Collecting: FromIterator (sequential) and FromParallelIterator (rayon) *)

\* the closure || BagOfWords::new() handed to reduce
par_identity == new

\* a reduce operator that drops its right operand
par_reduce_op_left(x, y) == x

\* the closure |a, b| a.combine(b) handed to reduce
par_reduce_op(x, y) == combine(x, y)

\* the items of a collection: maps of texts (the empty one among them) and
\* maps whose counts overflow when added
CollectBows ==
    { Build(src) : src \in
        { [kind |-> "text", val |-> <<>>],
          [kind |-> "text", val |-> <<"a">>],
          [kind |-> "text", val |-> <<"a", " ", "A">>],
          [kind |-> "text", val |-> <<"!", "a", "!">>],
          [kind |-> "map", val |-> <<"A">> :> u32_MAX],
          [kind |-> "map", val |-> <<"A">> :> <<Limb \div 2, 0>>] } }

InitCollect ==
    /\ overflow_checks \in BOOLEAN
    /\ pc = "from_iter"
    /\ text = <<>>
    /\ bow = new
    /\ src_a = NoSource /\ src_b = NoSource
    /\ bow_a = new /\ bow_b = new /\ bow_c = new /\ bow_r = new
    /\ docs \in UNION {[1..n -> CollectBows] : n \in 0..NDocs}
    /\ seq_c = new          \* let mut c = BagOfWords::new();
    /\ seq_i = 1
    /\ pending = DOMAIN docs
    /\ partials = {}
    /\ idle = 0
    /\ par_r = NoResult
    /\ FreqIdle /\ ModelIdle

\* from_iter: c = c.combine(i) for the next item i
FromIterStep ==
    /\ pc = "from_iter"
    /\ seq_i <= Len(docs)
    /\ seq_c' = combine(seq_c, docs[seq_i])
    /\ seq_i' = seq_i + 1
    /\ UNCHANGED <<overflow_checks, pc, bow_vars, freq_vars, model_vars, docs, pending, partials, idle, par_r, grow_vars>>

\* from_iter returns c; the same collection is then collected in parallel
FromIterReturn ==
    /\ pc = "from_iter"
    /\ seq_i > Len(docs)
    /\ pc' = "from_par_iter"
    /\ UNCHANGED <<overflow_checks, bow_vars, collect_vars, freq_vars, model_vars, grow_vars>>

\* reduce: a folder starts from identity()
ParIdentity ==
    /\ pc = "from_par_iter"
    /\ idle < MaxIdle
    /\ idle' = idle + 1
    /\ UNCHANGED <<overflow_checks, pc, bow_vars, freq_vars, model_vars, docs, seq_c, seq_i, pending, partials, par_r, grow_vars>>

\* reduce: a folder that holds the identity takes item i
ParFoldFirst(i) ==
    /\ pc = "from_par_iter"
    /\ idle > 0
    /\ i \in pending
    /\ idle' = idle - 1
    /\ pending' = pending \ {i}
    /\ partials' = partials \cup
           {[acc |-> par_reduce_op(par_identity, docs[i]), merged |-> {i}]}
    /\ UNCHANGED <<overflow_checks, pc, bow_vars, freq_vars, model_vars, docs, seq_c, seq_i, par_r, grow_vars>>

\* reduce: the folder of partial result p takes item i
ParFold(p, i) ==
    /\ pc = "from_par_iter"
    /\ p \in partials
    /\ i \in pending
    /\ pending' = pending \ {i}
    /\ partials' = (partials \ {p}) \cup
           {[acc |-> par_reduce_op(p.acc, docs[i]), merged |-> p.merged \cup {i}]}
    /\ UNCHANGED <<overflow_checks, pc, bow_vars, freq_vars, model_vars, docs, seq_c, seq_i, idle, par_r, grow_vars>>

\* reduce: two partial results are reduced, p on the left
ParReduce(p, q) ==
    /\ pc = "from_par_iter"
    /\ p \in partials /\ q \in partials /\ p # q
    /\ partials' = (partials \ {p, q}) \cup
           {[acc |-> par_reduce_op(p.acc, q.acc), merged |-> p.merged \cup q.merged]}
    /\ UNCHANGED <<overflow_checks, pc, bow_vars, freq_vars, model_vars, docs, seq_c, seq_i, pending, idle, par_r, grow_vars>>

\* reduce: a partial result is reduced with a folder that took no item
ParReduceIdentity(p, left) ==
    /\ pc = "from_par_iter"
    /\ p \in partials
    /\ idle > 0
    /\ idle' = idle - 1
    /\ partials' = (partials \ {p}) \cup
           {[acc |-> IF left THEN par_reduce_op(par_identity, p.acc)
                     ELSE par_reduce_op(p.acc, par_identity),
             merged |-> p.merged]}
    /\ UNCHANGED <<overflow_checks, pc, bow_vars, freq_vars, model_vars, docs, seq_c, seq_i, pending, par_r, grow_vars>>

\* reduce: two folders that took no item are reduced
ParReduceIdentities ==
    /\ pc = "from_par_iter"
    /\ idle >= 2
    /\ LET x == par_reduce_op(par_identity, par_identity)
       IN  IF x = par_identity
           THEN idle' = idle - 1 /\ UNCHANGED partials
           ELSE idle' = idle - 2 /\ partials' = partials \cup {[acc |-> x, merged |-> {}]}
    /\ UNCHANGED <<overflow_checks, pc, bow_vars, freq_vars, model_vars, docs, seq_c, seq_i, pending, par_r, grow_vars>>

\* reduce returns once every item is taken and one result is left
ParReturn ==
    /\ pc = "from_par_iter"
    /\ pending = {}
    /\ \/ /\ idle = 0
          /\ \E p \in partials : partials = {p} /\ par_r' = p
       \/ /\ idle = 1 /\ partials = {}
          /\ par_r' = [acc |-> par_identity, merged |-> {}]
    /\ pc' = "collected"
    /\ UNCHANGED <<overflow_checks, bow_vars, freq_vars, model_vars, docs, seq_c, seq_i, pending, partials, idle, grow_vars>>

NextCollect ==
    \/ FromIterStep
    \/ FromIterReturn
    \/ ParIdentity
    \/ \E i \in DOMAIN docs : ParFoldFirst(i)
    \/ \E p \in partials, i \in DOMAIN docs : ParFold(p, i)
    \/ \E p \in partials, q \in partials : ParReduce(p, q)
    \/ \E p \in partials, left \in BOOLEAN : ParReduceIdentity(p, left)
    \/ ParReduceIdentities
    \/ ParReturn

SpecCollect == InitCollect /\ [][NextCollect]_vars

\* C3: whatever the partition of the collection among the folders and the
\* order in which partial results are reduced, the parallel reduce returns
\* the map the sequential left fold from the empty map returns, and every
\* item of the collection is merged into it exactly once.
C3_ParallelEqualsSequential ==
    /\ pc = "collected" =>
           /\ par_r.acc = seq_c
           /\ par_r.merged = DOMAIN docs
    /\ \A p \in partials : p.merged \cap pending = {}
    /\ \A p \in partials, q \in partials : p # q => p.merged \cap q.merged = {}
    /\ pc = "from_par_iter" =>
           pending \cup UNION {p.merged : p \in partials} = DOMAIN docs

\* C3 witness: three different non-empty maps that share a key were collected
C3_Witness ==
    /\ pc = "collected"
    /\ Len(docs) = 3
    /\ Cardinality({docs[i] : i \in DOMAIN docs}) = 3
    /\ \A i \in DOMAIN docs : <<"A">> \in keys(docs[i])
    /\ par_r.acc # Panic

\* C3 witness of a reduction tree: a partial result of the last item alone
\* next to a partial result of the first two
C3_WitnessTree ==
    /\ pc = "from_par_iter"
    /\ Len(docs) = 3
    /\ \E p \in partials, q \in partials : p.merged = {1, 2} /\ q.merged = {3}

(* f64 *)

\* Frequency and Probability are f64. A finite value is held as the exact
\* fraction n/d in lowest terms with d > 0 (rounding is left out: the values
\* are ratios of small counts); NaN and the two infinities are values of
\* their own. The sign of a zero is not kept.
RECURSIVE gcd(_, _)
gcd(x, y) == IF y = 0 THEN x ELSE gcd(y, x % y)

abs(x) == IF x < 0 THEN -x ELSE x

NaN == [k |-> "nan", n |-> 0, d |-> 0]

INFINITY == [k |-> "inf", n |-> 1, d |-> 0]

NEG_INFINITY == [k |-> "inf", n |-> -1, d |-> 0]

\* the finite value x/y, y # 0
Fin(x, y) ==
    LET g == gcd(abs(x), abs(y))
        sg == IF y < 0 THEN -1 ELSE 1
    IN  [k |-> "fin", n |-> sg * (x \div g), d |-> abs(y) \div g]

f64_0 == Fin(0, 1)

f64_1 == Fin(1, 1)

is_nan(x) == x.k = "nan"

is_finite(x) == x.k = "fin"

\* -1, 0 or 1 for a value that is not NaN
signum(x) == IF x.n < 0 THEN -1 ELSE IF x.n > 0 THEN 1 ELSE 0

\* x + y
f64_add(x, y) ==
    IF is_nan(x) \/ is_nan(y) THEN NaN
    ELSE IF is_finite(x) /\ is_finite(y) THEN Fin(x.n * y.d + y.n * x.d, x.d * y.d)
    ELSE IF is_finite(x) THEN y
    ELSE IF is_finite(y) THEN x
    ELSE IF x = y THEN x ELSE NaN

f64_neg(x) == IF is_nan(x) THEN NaN ELSE [x EXCEPT !.n = -x.n]

\* x - y
f64_sub(x, y) == f64_add(x, f64_neg(y))

\* x * y
f64_mul(x, y) ==
    IF is_nan(x) \/ is_nan(y) THEN NaN
    ELSE IF is_finite(x) /\ is_finite(y) THEN Fin(x.n * y.n, x.d * y.d)
    ELSE IF signum(x) * signum(y) = 0 THEN NaN
    ELSE IF signum(x) * signum(y) > 0 THEN INFINITY ELSE NEG_INFINITY

\* x / y
f64_div(x, y) ==
    IF is_nan(x) \/ is_nan(y) THEN NaN
    ELSE IF is_finite(x) /\ is_finite(y)
         THEN IF y.n # 0 THEN Fin(x.n * y.d, x.d * y.n)
              ELSE IF x.n = 0 THEN NaN
              ELSE IF x.n > 0 THEN INFINITY ELSE NEG_INFINITY
    ELSE IF is_finite(x) THEN f64_0
    ELSE IF is_finite(y)
         THEN IF signum(x) * (IF y.n < 0 THEN -1 ELSE 1) > 0
              THEN INFINITY ELSE NEG_INFINITY
    ELSE NaN

\* x <= y for values that are not NaN
f64_le(x, y) ==
    IF is_finite(x) /\ is_finite(y) THEN x.n * y.d <= y.n * x.d
    ELSE IF is_finite(x) THEN y = INFINITY
    ELSE IF is_finite(y) THEN x = NEG_INFINITY
    ELSE x = y \/ x = NEG_INFINITY

\* a Count as f64: the cast `v as Frequency`
as_f64(c) == Fin(c[1] * Limb + c[2], 1)

is_even(c) == c[2] % 2 = 0

\* c / 2 of an even Count
half(c) == <<c[1] \div 2, (c[1] % 2) * (Limb \div 2) + c[2] \div 2>>

\* v as f64 / t as f64: the quotient of the two casts. Common factors of two
\* are taken out of the two counts before they are cast, which leaves the
\* quotient as it is and keeps the fraction of counts near 2^32 small.
RECURSIVE cast_div(_, _)
cast_div(v, t) ==
    IF v = u32(0) THEN (IF t = u32(0) THEN NaN ELSE f64_0)
    ELSE IF t = u32(0) THEN INFINITY
    ELSE IF is_even(v) /\ is_even(t) THEN cast_div(half(v), half(t))
    ELSE f64_div(as_f64(v), as_f64(t))

(* Word frequency *)

\* total_word_count: self.bow.values().sum(), the u32 additions of the build
RECURSIVE sum_values(_, _, _)
sum_values(b, ks, acc) ==
    IF ks = {} \/ acc = Panic THEN acc
    ELSE LET key == CHOOSE key \in ks : TRUE
         IN  sum_values(b, ks \ {key}, AddCount(acc, b.bow[key]))

total_word_count(self) == sum_values(self, keys(self), u32(0))

\* the closure of and_then: Some(v as Frequency / total_word_count as Frequency)
frequency_of(self, v) ==
    LET total == total_word_count(self)
    IN  IF total = Panic THEN Panic
        ELSE Some(cast_div(v, total))

\* BagOfWords::word_frequency of bag_of_words.rs
word_frequency(self, w) ==
    LET word_vec == words_of(w)
    IN  IF Len(word_vec) = 0 \/ Len(word_vec) > 1 THEN None
        ELSE LET key == to_uppercase(word_vec[1])
             IN  IF key \in keys(self) THEN frequency_of(self, self.bow[key])
                 ELSE None

\* BagOfWords::word_frequency of lib.rs: the token is looked up as written
lib_word_frequency(self, w) ==
    LET word_vec == words_of(w)
    IN  IF Len(word_vec) = 0 \/ Len(word_vec) > 1 THEN None
        ELSE LET key == word_vec[1]
             IN  IF key \in keys(self) THEN frequency_of(self, self.bow[key])
                 ELSE None

\* maps written as literals or deserialized, with counts small enough for
\* the division: a zero count, a key not in upper case, ordinary counts
FreqMaps ==
    { (<<"A">> :> u32(0)),
      (<<"A">> :> u32(0)) @@ (<<"!">> :> u32(0)),
      (<<"a">> :> u32(1)),
      (<<"A">> :> u32(2)) @@ (<<"!">> :> u32(1)) }

FreqSources ==
    {[kind |-> "text", val |-> t] : t \in DocTexts}
        \cup {[kind |-> "map", val |-> hm] : hm \in FreqMaps}

Words == StringsUpTo(MaxWordLen)

InitFreq ==
    /\ overflow_checks \in BOOLEAN
    /\ pc = "sources"
    /\ text = <<>>
    /\ bow = new
    /\ src_a \in FreqSources /\ src_b = NoSource
    /\ bow_a = new /\ bow_b = new /\ bow_c = new /\ bow_r = new
    /\ CollectIdle

\* the map the frequency is asked of is built from its source
BuildBow ==
    /\ pc = "sources"
    /\ bow' = Build(src_a)
    /\ pc' = "bow"
    /\ UNCHANGED <<overflow_checks, text, src_a, src_b, bow_a, bow_b, bow_c, bow_r, collect_vars, freq_vars, model_vars, grow_vars>>

\* bow.word_frequency(w), by both implementations
WordFrequency(w) ==
    /\ pc = "bow"
    /\ word' = w
    /\ freq' = word_frequency(bow, w)
    /\ lib_freq' = lib_word_frequency(bow, w)
    /\ pc' = "freq"
    /\ UNCHANGED <<overflow_checks, bow_vars, collect_vars, model_vars, grow_vars>>

NextFreq == BuildBow \/ \E w \in Words : WordFrequency(w)

SpecFreq == InitFreq /\ [][NextFreq]_vars

\* the sum of the counts of the map is zero
TotalIsZero(b) == \A key \in keys(b) : b.bow[key] = u32(0)

\* C10: word_frequency returns None when the argument does not segment
\* into exactly one non-blank token, when that token is absent from the map,
\* or when the total count of the map is zero.
C10_WordFrequencyNone ==
    pc = "freq" =>
        /\ Len(words_of(word)) # 1 => freq = None /\ lib_freq = None
        /\ Len(words_of(word)) = 1 =>
               /\ to_uppercase(words_of(word)[1]) \notin keys(bow) => freq = None
               /\ words_of(word)[1] \notin keys(bow) => lib_freq = None
        /\ TotalIsZero(bow) => freq = None /\ lib_freq = None

\* C10, the part the code keeps: None for an argument of no token or of
\* several, and for a token that is not a key of the map
C10_NoneWithoutToken ==
    pc = "freq" =>
        /\ Len(words_of(word)) # 1 => freq = None /\ lib_freq = None
        /\ Len(words_of(word)) = 1 =>
               /\ to_uppercase(words_of(word)[1]) \notin keys(bow) => freq = None
               /\ words_of(word)[1] \notin keys(bow) => lib_freq = None

(* HSModel *)

\* add_spam_bow that combines into the ham map
add_spam_bow_into_ham(self, spam_bow) ==
    IF combine(self.ham_bow, spam_bow) = Panic THEN Panic
    ELSE [self EXCEPT !.ham_bow = combine(self.ham_bow, spam_bow)]

\* a Panic of a map operation ends the call it happens in
add_spam_bow(self, spam_bow) ==
    IF combine(self.spam_bow, spam_bow) = Panic THEN Panic
    ELSE [self EXCEPT !.spam_bow = combine(self.spam_bow, spam_bow)]

add_ham_bow(self, ham_bow) ==
    IF combine(self.ham_bow, ham_bow) = Panic THEN Panic
    ELSE [self EXCEPT !.ham_bow = combine(self.ham_bow, ham_bow)]

\* HSModel::new().add_ham_bow(ham_bow).add_spam_bow(spam_bow)
from_bows(ham_bow, spam_bow) ==
    IF add_ham_bow(hs_new, ham_bow) = Panic THEN Panic
    ELSE add_spam_bow(add_ham_bow(hs_new, ham_bow), spam_bow)

\* A logarithm x is held as the f64 value e^x: NaN for NaN, 0 for -inf,
\* +inf for +inf. ln of a negative value is NaN.
ln(x) ==
    IF is_nan(x) \/ signum(x) < 0 THEN [exp |-> NaN] ELSE [exp |-> x]

\* x - y and x + y of logarithms
ln_sub(x, y) == [exp |-> f64_div(x.exp, y.exp)]

ln_add(x, y) == [exp |-> f64_mul(x.exp, y.exp)]

\* the logarithm 0.0, which an empty sum is
ln_zero == [exp |-> f64_1]

\* E.powf(n)
E_powf(x) == x.exp

\* the filter_map closure with a word of one map counted as frequency zero
\* in the other
log_odds_miss_as_zero(self, w) ==
    LET spam == word_frequency(self.spam_bow, w)
        ham == word_frequency(self.ham_bow, w)
        spam_freq == IF spam = None THEN f64_0 ELSE spam.val
        ham_freq == IF ham = None THEN f64_0 ELSE ham.val
        p == f64_div(spam_freq, f64_add(spam_freq, ham_freq))
    IN  IF spam = Panic \/ ham = Panic THEN Panic
        ELSE Some(ln_sub(ln(f64_sub(f64_1, p)), ln(p)))

\* the filter_map closure of hs_model.rs: ln(1 - p) - ln(p) with
\* p = spam_freq / (spam_freq + ham_freq) when both maps know the word
log_odds(self, w) ==
    LET spam == word_frequency(self.spam_bow, w)
        ham == word_frequency(self.ham_bow, w)
        p == f64_div(spam.val, f64_add(spam.val, ham.val))
    IN  IF spam = Panic \/ ham = Panic THEN Panic
        ELSE IF spam # None /\ ham # None
             THEN Some(ln_sub(ln(f64_sub(f64_1, p)), ln(p)))
        ELSE None

\* .sum() of the terms of the words ws, from acc
RECURSIVE sum_log_odds(_, _, _)
sum_log_odds(self, ws, acc) ==
    IF ws = <<>> \/ acc = Panic THEN acc
    ELSE LET term == log_odds(self, Head(ws))
         IN  sum_log_odds(self, Tail(ws),
                 IF term = Panic THEN Panic
                 ELSE IF term = None THEN acc
                 ELSE ln_add(acc, term.val))

\* HSModel::text_spam_probability of hs_model.rs
text_spam_probability(self, t) ==
    LET n == sum_log_odds(self, words_of(to_uppercase(t)), ln_zero)
    IN  IF n = Panic THEN Panic
        ELSE f64_div(f64_1, f64_add(f64_1, E_powf(n)))

\* the filter_map closure of lib.rs: spam_freq / (spam_freq * ham_freq)
lib_ratio(self, w) ==
    LET spam == lib_word_frequency(self.spam_bow, w)
        ham == lib_word_frequency(self.ham_bow, w)
    IN  IF spam = Panic \/ ham = Panic THEN Panic
        ELSE IF spam # None /\ ham # None
             THEN Some(f64_div(spam.val, f64_mul(spam.val, ham.val)))
        ELSE None

\* .fold((1f64, 1f64), |acc, p| (acc.0 * p, acc.1 * (1f64 - p)))
RECURSIVE lib_fold(_, _, _)
lib_fold(self, ws, acc) ==
    IF ws = <<>> \/ acc = Panic THEN acc
    ELSE LET p == lib_ratio(self, Head(ws))
         IN  lib_fold(self, Tail(ws),
                 IF p = Panic THEN Panic
                 ELSE IF p = None THEN acc
                 ELSE <<f64_mul(acc[1], p.val),
                        f64_mul(acc[2], f64_sub(f64_1, p.val))>>)

\* HSModel::text_spam_probability of lib.rs
lib_text_spam_probability(self, t) ==
    LET acc == lib_fold(self, words_of(t), <<f64_1, f64_1>>)
    IN  IF acc = Panic THEN Panic
        ELSE f64_div(acc[1], f64_add(acc[1], acc[2]))

\* the texts the maps of a model are constructed from
TrainTexts ==
    { <<>>, <<"a">>, <<"!">>, <<"a", " ", "!">>, <<"a", " ", "A">>,
      <<"a", " ", "a", " ", "a", " ", "a", " ", "!">> }

Queries == StringsUpTo(MaxQueryLen)

InitModel ==
    /\ overflow_checks \in BOOLEAN
    /\ pc = "training"
    /\ text = <<>>
    /\ bow = new
    /\ src_a = NoSource /\ src_b = NoSource
    /\ bow_a = new /\ bow_b = new /\ bow_c = new /\ bow_r = new
    /\ CollectIdle

\* model = model.add_spam_bow(BagOfWords::from(t))
AddSpamBow(t) ==
    /\ pc = "training" /\ nadds < MaxAdds
    /\ hs' = add_spam_bow(hs, From(t))
    /\ nadds' = nadds + 1
    /\ spam_added' = Append(spam_added, t)
    /\ pc' = IF hs' = Panic THEN "panicked" ELSE "training"
    /\ UNCHANGED <<overflow_checks, bow_vars, collect_vars, freq_vars, query, prob, lib_prob, ham_added, grow_vars>>

\* model = model.add_ham_bow(BagOfWords::from(t))
AddHamBow(t) ==
    /\ pc = "training" /\ nadds < MaxAdds
    /\ hs' = add_ham_bow(hs, From(t))
    /\ nadds' = nadds + 1
    /\ ham_added' = Append(ham_added, t)
    /\ pc' = IF hs' = Panic THEN "panicked" ELSE "training"
    /\ UNCHANGED <<overflow_checks, bow_vars, collect_vars, freq_vars, query, prob, lib_prob, spam_added, grow_vars>>

\* model = HSModel::from_bows(BagOfWords::from(h), BagOfWords::from(s))
FromBows(h, s) ==
    /\ pc = "training" /\ nadds = 0 /\ MaxAdds >= 2
    /\ hs' = from_bows(From(h), From(s))
    /\ nadds' = 2
    /\ ham_added' = <<h>> /\ spam_added' = <<s>>
    /\ pc' = IF hs' = Panic THEN "panicked" ELSE "training"
    /\ UNCHANGED <<overflow_checks, bow_vars, collect_vars, freq_vars, query, prob, lib_prob, grow_vars>>

\* model.text_spam_probability(q), by both implementations
TextSpamProbability(q) ==
    /\ pc \in {"training", "loaded"}
    /\ query' = q
    /\ prob' = text_spam_probability(hs, q)
    /\ lib_prob' = lib_text_spam_probability(hs, q)
    /\ pc' = IF pc = "loaded" THEN "scored_loaded" ELSE "scored"
    /\ UNCHANGED <<overflow_checks, bow_vars, collect_vars, freq_vars, hs, nadds, spam_added, ham_added, grow_vars>>

\* the models a JSON file can hold: maps with a key of count 0, a total of 0
JsonModels ==
    { [ham_bow |-> BagOfWords(<<"A">> :> u32(0)),
       spam_bow |-> BagOfWords(<<"A">> :> u32(0))],
      [ham_bow |-> BagOfWords(<<"A">> :> u32(1)),
       spam_bow |-> BagOfWords((<<"A">> :> u32(0)) @@ (<<"!">> :> u32(1)))],
      [ham_bow |-> BagOfWords((<<"A">> :> u32(0)) @@ (<<"!">> :> u32(1))),
       spam_bow |-> BagOfWords(<<"A">> :> u32(1))],
      [ham_bow |-> BagOfWords((<<"A">> :> u32(1)) @@ (<<"!">> :> u32(0))),
       spam_bow |-> BagOfWords((<<"A">> :> u32(0)) @@ (<<"!">> :> u32(1)))],
      [ham_bow |-> BagOfWords((<<"A">> :> u32(1)) @@ (<<"!">> :> u32(1))),
       spam_bow |-> BagOfWords((<<"A">> :> u32(3)) @@ (<<"!">> :> u32(1)))] }

\* HSModel::read_from_json: the model of the file, or None
read_from_json(file) == IF file \in JsonModels THEN Some(file) ELSE None

\* model = HSModel::read_from_json(path).unwrap(); a file that cannot be
\* read or parsed gives None and no model
ReadFromJson(file) ==
    /\ pc = "training" /\ nadds = 0
    /\ hs' = IF read_from_json(file) = None THEN hs ELSE read_from_json(file).val
    /\ pc' = IF read_from_json(file) = None THEN "no_model" ELSE "loaded"
    /\ UNCHANGED <<overflow_checks, bow_vars, collect_vars, freq_vars, nadds, query, prob, lib_prob, spam_added, ham_added, grow_vars>>

NextModel ==
    \/ \E file \in JsonModels \cup {None} : ReadFromJson(file)
    \/ \E t \in TrainTexts : AddSpamBow(t)
    \/ \E t \in TrainTexts : AddHamBow(t)
    \/ \E h \in TrainTexts, s \in TrainTexts : FromBows(h, s)
    \/ \E q \in Queries : TextSpamProbability(q)

SpecModel == InitModel /\ [][NextModel]_vars

\* a finite value of the closed interval [0, 1]
InUnitInterval(x) ==
    x # Panic /\ is_finite(x) /\ f64_le(f64_0, x) /\ f64_le(x, f64_1)

\* C4: for a model of maps built by construction from text and combine, and
\* for every text, text_spam_probability returns a value of [0, 1].
C4_ProbabilityInUnitInterval ==
    pc = "scored" => InUnitInterval(prob) /\ InUnitInterval(lib_prob)

\* C4 for the implementation of hs_model.rs alone
C4_HsModelInUnitInterval ==
    pc = "scored" => InUnitInterval(prob)

\* the token w, as written or in upper case, is a key of the map b
Appears(w, b) == w \in keys(b) \/ to_uppercase(w) \in keys(b)

\* no token of the text q is a key of either map of the model
NoEvidence(self, q) ==
    \A i \in DOMAIN words_of(q) :
        /\ ~Appears(words_of(q)[i], self.spam_bow)
        /\ ~Appears(words_of(q)[i], self.ham_bow)

f64_half == Fin(1, 2)

\* C5: when no token of the text is a key of either map of the model,
\* text_spam_probability returns exactly 0.5: for the empty text and for the
\* model of new() as well.
C5_NoEvidenceIsHalf ==
    pc = "scored" /\ NoEvidence(hs, query) =>
        prob = f64_half /\ lib_prob = f64_half

\* C5 witness: a text with a token was scored by a model whose two maps
\* both have keys, none of them the token
C5_Witness ==
    /\ pc = "scored"
    /\ NoEvidence(hs, query)
    /\ words_of(query) # <<>>
    /\ keys(hs.spam_bow) # {} /\ keys(hs.ham_bow) # {}
    /\ prob = f64_half

\* C5 witnesses: the empty text, and the model of new() with a text of tokens
C5_WitnessEmptyText ==
    pc = "scored" /\ query = <<>> /\ keys(hs.spam_bow) # {} /\ prob = f64_half

C5_WitnessEmptyModel ==
    pc = "scored" /\ hs = hs_new /\ words_of(query) # <<>> /\ prob = f64_half

---------------------------------------------------------------------------
(* Maps reachable from new() by construction from text, combine and collect *)

\* FromIterator::from_iter over the items docs, from the map c
RECURSIVE from_iter_loop(_, _)
from_iter_loop(c, items) ==
    IF items = <<>> \/ c = Panic THEN c
    ELSE from_iter_loop(combine(c, Head(items)), Tail(items))

from_iter(items) == from_iter_loop(new, items)

\* what reduce(identity, op) can return for the items: an empty range gives
\* identity(), a range of one item folds it into identity(), a longer range
\* is split in two and the results of the halves are joined by op
RECURSIVE from_par_iter(_)
from_par_iter(items) ==
    IF items = <<>> THEN {par_identity}
    ELSE IF Len(items) = 1 THEN {par_reduce_op(par_identity, items[1])}
    ELSE UNION { { par_reduce_op(x, y) :
                      x \in from_par_iter(SubSeq(items, 1, m)),
                      y \in from_par_iter(SubSeq(items, m + 1, Len(items))) } :
                 m \in 1..(Len(items) - 1) }

\* the words a frequency is asked for of a grown map
GrowWords == { <<"a">>, <<"A">>, <<"!">>, <<"a", " ", "!">>, <<>> }

InitGrow ==
    /\ overflow_checks \in BOOLEAN
    /\ pc = "grow"
    /\ text = <<>>
    /\ bow = new
    /\ src_a = NoSource /\ src_b = NoSource
    /\ bow_a = new /\ bow_b = new /\ bow_c = new /\ bow_r = new
    /\ CollectIdle

\* bow = bow.combine(BagOfWords::from(t))
GrowFrom(t) ==
    /\ pc = "grow" /\ ngrown < MaxGrown
    /\ bow' = combine(bow, From(t))
    /\ ngrown' = ngrown + 1
    /\ pc' = IF bow' = Panic THEN "panicked" ELSE "grow"
    /\ UNCHANGED <<overflow_checks, text, src_a, src_b, bow_a, bow_b, bow_c, bow_r, collect_vars, freq_vars, model_vars>>

\* bow = bow.clone().combine(bow): the map is doubled, again and again, once
\* it has taken in its texts
GrowCombine ==
    /\ pc \in {"grow", "double"}
    /\ bow' = combine(bow, bow)
    /\ pc' = IF bow' = Panic THEN "panicked" ELSE "double"
    /\ UNCHANGED <<overflow_checks, text, src_a, src_b, bow_a, bow_b, bow_c, bow_r, collect_vars, freq_vars, model_vars, grow_vars>>

\* bow = vec![bow, BagOfWords::from(t)].into_iter().collect()
GrowCollect(t) ==
    /\ pc = "grow" /\ ngrown < MaxGrown
    /\ bow' = from_iter(<<bow, From(t)>>)
    /\ ngrown' = ngrown + 1
    /\ pc' = IF bow' = Panic THEN "panicked" ELSE "grow"
    /\ UNCHANGED <<overflow_checks, text, src_a, src_b, bow_a, bow_b, bow_c, bow_r, collect_vars, freq_vars, model_vars>>

\* bow = vec![bow, BagOfWords::from(t), bow.clone()].into_par_iter().collect()
GrowParCollect(t) ==
    /\ pc = "grow" /\ ngrown < MaxGrown
    /\ bow' \in from_par_iter(<<bow, From(t), bow>>)
    /\ ngrown' = ngrown + 1
    /\ pc' = IF bow' = Panic THEN "panicked" ELSE "grow"
    /\ UNCHANGED <<overflow_checks, text, src_a, src_b, bow_a, bow_b, bow_c, bow_r, collect_vars, freq_vars, model_vars>>

\* bow.word_frequency(w), by both implementations
GrowFrequency(w) ==
    /\ pc \in {"grow", "double"}
    /\ word' = w
    /\ freq' = word_frequency(bow, w)
    /\ lib_freq' = lib_word_frequency(bow, w)
    /\ pc' = "freq"
    /\ UNCHANGED <<overflow_checks, bow_vars, collect_vars, model_vars, grow_vars>>

NextGrow ==
    \/ \E t \in TrainTexts : GrowFrom(t)
    \/ GrowCombine
    \/ \E t \in TrainTexts : GrowCollect(t)
    \/ \E t \in TrainTexts : GrowParCollect(t)
    \/ \E w \in GrowWords : GrowFrequency(w)

SpecGrow == InitGrow /\ [][NextGrow]_vars

\* C11: a word_frequency that succeeds returns the count of the token
\* divided by total_word_count, a value of [0, 1], for every map reachable
\* by construction from text and combine.
C11_FrequencyIsRatio ==
    (pc = "freq" /\ freq # None /\ freq # Panic) =>
        /\ freq.val = cast_div(bow.bow[to_uppercase(words_of(word)[1])],
                               total_word_count(bow))
        /\ InUnitInterval(freq.val)

\* C11 in a build with overflow checks, where no count and no total wraps
C11_WithOverflowChecks == overflow_checks => C11_FrequencyIsRatio

---------------------------------------------------------------------------
(* The keys of lookup and of scoring *)

\* the key word_frequency of bag_of_words.rs looks the word w up under
lookup_key(w) ==
    IF Len(words_of(w)) = 1 THEN Some(to_uppercase(words_of(w)[1])) ELSE None

\* the key word_frequency of lib.rs looks the word w up under
lib_lookup_key(w) ==
    IF Len(words_of(w)) = 1 THEN Some(words_of(w)[1]) ELSE None

\* the keys text_spam_probability of hs_model.rs looks up for the text t,
\* token by token
scoring_keys(t) ==
    [i \in DOMAIN words_of(to_uppercase(t)) |->
        lookup_key(words_of(to_uppercase(t))[i])]

\* the keys text_spam_probability of lib.rs looks up for the text t
lib_scoring_keys(t) ==
    [i \in DOMAIN words_of(t) |-> lib_lookup_key(words_of(t)[i])]

\* the keys construction from the text t makes, token by token
construction_keys(t) ==
    [i \in DOMAIN words_of(t) |-> Some(to_uppercase(words_of(t)[i]))]

\* the frequency stored for the key: its count over the total of the map
StoredFrequency(b, key) == Some(cast_div(b.bow[key], total_word_count(b)))

\* the word asked for is a non-blank segment of the text the map was built
\* from, in some letter case
WordIsSegmentOfSource ==
    /\ pc = "freq" /\ src_a.kind = "text"
    /\ \E i \in DOMAIN words_of(src_a.val) :
           DifferOnlyInCase(word, words_of(src_a.val)[i])

\* C12, for bag_of_words.rs and hs_model.rs: asked for a segment of its
\* text in any letter case, the map answers with the count stored under the
\* uppercase key, and scoring looks every token of a text up under the key
\* construction made for it.
C12_HsModelSameKeys ==
    /\ WordIsSegmentOfSource =>
           freq = StoredFrequency(bow, to_uppercase(word))
    /\ (pc = "freq" /\ src_a.kind = "text") =>
           scoring_keys(src_a.val) = construction_keys(src_a.val)

\* C12: the same of every implementation of lookup and scoring.
C12_SameKeys ==
    /\ C12_HsModelSameKeys
    /\ WordIsSegmentOfSource =>
           lib_freq = StoredFrequency(bow, to_uppercase(word))
    /\ (pc = "freq" /\ src_a.kind = "text") =>
           lib_scoring_keys(src_a.val) = construction_keys(src_a.val)

---------------------------------------------------------------------------
(* Assembling a model *)

\* the orders 1..n can be put in
Orders(n) == {f \in [1..n -> 1..n] : \A i, j \in 1..n : f[i] = f[j] => i = j}

\* the maps of the texts ts, combined from new() in the order f
CombinedInOrder(ts, f) == from_iter([i \in 1..Len(ts) |-> From(ts[f[i]])])

\* C13: whatever the order and interleaving of the add_spam_bow and
\* add_ham_bow calls (and for from_bows), the spam map is the combine of the
\* spam maps added and the ham map the combine of the ham maps added, in
\* any order of combining.
C13_AssemblyOrderIndependent ==
    pc = "training" =>
        /\ \A f \in Orders(Len(spam_added)) :
               hs.spam_bow = CombinedInOrder(spam_added, f)
        /\ \A f \in Orders(Len(ham_added)) :
               hs.ham_bow = CombinedInOrder(ham_added, f)

\* C13 witness: two different spam maps that share a key were added
C13_Witness ==
    /\ pc = "training"
    /\ Len(spam_added) = 2
    /\ From(spam_added[1]) # From(spam_added[2])
    /\ keys(From(spam_added[1])) \cap keys(From(spam_added[2])) # {}
    /\ hs.ham_bow = new

\* C13 witnesses: a ham map added before a spam map, and after one
C13_WitnessHamFirst ==
    /\ pc = "training"
    /\ Len(spam_added) = 1 /\ Len(ham_added) = 1
    /\ hs.ham_bow # new /\ hs.spam_bow # new /\ hs.ham_bow # hs.spam_bow

---------------------------------------------------------------------------
(* Scores *)

\* x < y for values that are not NaN
f64_lt(x, y) == f64_le(x, y) /\ x # y

\* a finite value of the open interval (0, 1)
StrictlyInside(x) ==
    x # Panic /\ is_finite(x) /\ f64_lt(f64_0, x) /\ f64_lt(x, f64_1)

\* the text q is one token, and the token is a key of both maps of the model
OneTokenOfBothMaps(self, q) ==
    /\ Len(words_of(q)) = 1
    /\ to_uppercase(words_of(q)[1]) \in keys(self.spam_bow) \cap keys(self.ham_bow)

\* C14, for hs_model.rs: a text of one token that both maps hold scores
\* strictly between 0 and 1.
C14_HsModelNotExtreme ==
    (pc = "scored" /\ OneTokenOfBothMaps(hs, query)) => StrictlyInside(prob)

\* C14: the same of every implementation of text_spam_probability.
C14_NotExtreme ==
    (pc = "scored" /\ OneTokenOfBothMaps(hs, query)) =>
        StrictlyInside(prob) /\ StrictlyInside(lib_prob)

\* the model of spam "a a a a !" and ham "a !" scored the text "a": the
\* filter_test of hs_model.rs with "a" for spam and "!" for ham
C14_FilterTest ==
    /\ pc = "scored"
    /\ hs.spam_bow = From(<<"a", " ", "a", " ", "a", " ", "a", " ", "!">>)
    /\ hs.ham_bow = From(<<"a", " ", "!">>)
    /\ query = <<"a">>
    /\ prob = Fin(8, 13)

---------------------------------------------------------------------------
(* The total of a map *)

\* the sum of the limbs of index n of the counts of the keys ks
RECURSIVE SumLimb(_, _, _)
SumLimb(b, ks, n) ==
    IF ks = {} THEN 0
    ELSE LET key == CHOOSE key \in ks : TRUE
         IN  b.bow[key][n] + SumLimb(b, ks \ {key}, n)

\* the high part and the low limb of the sum of all counts, as a natural
\* number that no width cuts
ExactHigh(b) == SumLimb(b, keys(b), 1) + SumLimb(b, keys(b), 2) \div Limb

ExactLow(b) == SumLimb(b, keys(b), 2) % Limb

\* the Count t is the sum of all counts of the map
IsExactTotal(b, t) == t # Panic /\ t[1] = ExactHigh(b) /\ t[2] = ExactLow(b)

\* C15: total_word_count returns the exact sum of the counts of the map, 0
\* for the empty map, and the total of combine(A, B) is the total of A plus
\* the total of B.
C15_TotalIsExactSum ==
    /\ total_word_count(new) = u32(0)
    /\ pc = "ab" =>
           /\ IsExactTotal(bow_a, total_word_count(bow_a))
           /\ IsExactTotal(bow_b, total_word_count(bow_b))
           /\ bow_r # Panic
           /\ total_word_count(bow_r) # Panic
           /\ IsSum(total_word_count(bow_a), total_word_count(bow_b),
                    total_word_count(bow_r))

\* the sum of the counts of the two operands is a Count
TotalsFit == ExactHigh(bow_a) + ExactHigh(bow_b)
                 + (ExactLow(bow_a) + ExactLow(bow_b)) \div Limb < Limb

\* C15 where the sum of all counts of the two operands fits in 32 bits
C15_WhenTotalsFit == (pc = "ab" /\ ~TotalsFit) \/ C15_TotalIsExactSum

---------------------------------------------------------------------------
(* The log-odds formula *)

\* the token w is found in both maps of the model
Matched(self, w) ==
    to_uppercase(w) \in keys(self.spam_bow) \cap keys(self.ham_bow)

\* count over total of the key of the token w, in the map b
FrequencyIn(b, w) == cast_div(b.bow[to_uppercase(w)], total_word_count(b))

\* p = spam_freq / (spam_freq + ham_freq) of a matched token
LocalFraction(self, w) ==
    f64_div(FrequencyIn(self.spam_bow, w),
            f64_add(FrequencyIn(self.spam_bow, w), FrequencyIn(self.ham_bow, w)))

\* the product of ham_freq / spam_freq over the matched tokens of ws, every
\* occurrence counted
RECURSIVE OddsProduct(_, _)
OddsProduct(self, ws) ==
    IF ws = <<>> THEN f64_1
    ELSE IF Matched(self, Head(ws))
         THEN f64_mul(f64_div(FrequencyIn(self.ham_bow, Head(ws)),
                              FrequencyIn(self.spam_bow, Head(ws))),
                      OddsProduct(self, Tail(ws)))
    ELSE OddsProduct(self, Tail(ws))

\* 1 / (1 + product of ham_freq / spam_freq)
FormulaScore(self, q) ==
    f64_div(f64_1, f64_add(f64_1, OddsProduct(self, words_of(q))))

MatchedTokens(self, q) ==
    {i \in DOMAIN words_of(q) : Matched(self, words_of(q)[i])}

\* what the claim says of the score x of the text q
FollowsFormula(self, q, x) ==
    /\ x = FormulaScore(self, q)
    /\ \A i \in MatchedTokens(self, q) :
           Cardinality(MatchedTokens(self, q)) = 1 =>
               x = LocalFraction(self, words_of(q)[i])
    /\ ( /\ MatchedTokens(self, q) # {}
         /\ \A i \in MatchedTokens(self, q) :
                f64_lt(FrequencyIn(self.ham_bow, words_of(q)[i]),
                       FrequencyIn(self.spam_bow, words_of(q)[i])) )
           => f64_lt(f64_half, x)
    /\ ( /\ MatchedTokens(self, q) # {}
         /\ \A i \in MatchedTokens(self, q) :
                f64_lt(FrequencyIn(self.spam_bow, words_of(q)[i]),
                       FrequencyIn(self.ham_bow, words_of(q)[i])) )
           => f64_lt(x, f64_half)

\* C16, for hs_model.rs: the score is 1 / (1 + product over the matched
\* token occurrences of ham_freq / spam_freq); one matched token scores its
\* p, tokens all more frequent in spam score above 0.5, tokens all more
\* frequent in ham below 0.5.
C16_HsModelFollowsFormula ==
    pc = "scored" => FollowsFormula(hs, query, prob)

\* C16: the same of every implementation of text_spam_probability.
C16_FollowsFormula ==
    pc = "scored" =>
        FollowsFormula(hs, query, prob) /\ FollowsFormula(hs, query, lib_prob)

\* two occurrences of one matched token, more frequent in spam, were scored
C16_RepeatedToken ==
    /\ pc = "scored"
    /\ Cardinality(MatchedTokens(hs, query)) = 2
    /\ words_of(query)[1] = words_of(query)[2]
    /\ f64_lt(f64_half, prob)

---------------------------------------------------------------------------
(* Tokens that miss *)

\* the token w is found in both maps by the lookup of lib.rs
LibMatched(self, w) == w \in keys(self.spam_bow) \cap keys(self.ham_bow)

\* the tokens ws as a text: joined by single spaces
RECURSIVE Rejoin(_)
Rejoin(ws) ==
    IF ws = <<>> THEN <<>>
    ELSE IF Len(ws) = 1 THEN ws[1]
    ELSE ws[1] \o <<" ">> \o Rejoin(Tail(ws))

\* the tokens of ws that are found in both maps
RECURSIVE MatchedOf(_, _)
MatchedOf(self, ws) ==
    IF ws = <<>> THEN <<>>
    ELSE IF Matched(self, Head(ws)) THEN <<Head(ws)>> \o MatchedOf(self, Tail(ws))
    ELSE MatchedOf(self, Tail(ws))

RECURSIVE LibMatchedOf(_, _)
LibMatchedOf(self, ws) ==
    IF ws = <<>> THEN <<>>
    ELSE IF LibMatched(self, Head(ws)) THEN <<Head(ws)>> \o LibMatchedOf(self, Tail(ws))
    ELSE LibMatchedOf(self, Tail(ws))

\* C17: the score of a text is the score of the text without the tokens
\* whose lookup fails in the spam map or in the ham map; such a token adds
\* nothing, and is not taken as a token of frequency zero.
C17_SkipOnMiss ==
    pc = "scored" =>
        /\ prob = text_spam_probability(hs, Rejoin(MatchedOf(hs, words_of(query))))
        /\ lib_prob =
               lib_text_spam_probability(hs, Rejoin(LibMatchedOf(hs, words_of(query))))

\* C17 witness: a text of a token both maps hold and a token only one map
\* holds was scored, and the score is not the default
C17_Witness ==
    /\ pc = "scored"
    /\ Len(words_of(query)) = 2
    /\ Len(MatchedOf(hs, words_of(query))) = 1
    /\ \E i \in DOMAIN words_of(query) :
           /\ ~Matched(hs, words_of(query)[i])
           /\ to_uppercase(words_of(query)[i])
                  \in keys(hs.spam_bow) \cup keys(hs.ham_bow)
    /\ prob # f64_half

---------------------------------------------------------------------------
(* The counts of a reachable map *)

\* x <= y of two Counts
u32_le(x, y) == x[1] < y[1] \/ (x[1] = y[1] /\ x[2] <= y[2])

\* C18: every key of a map reachable from new() by construction from text,
\* combine and the two collects has a count of at least 1, and no step
\* removes a key or lowers a count.
C18_CountsPositive ==
    /\ [](bow # Panic => \A key \in keys(bow) : bow.bow[key] # u32(0))
    /\ [][(bow # Panic /\ bow' # Panic) =>
              /\ keys(bow) \subseteq keys(bow')
              /\ \A key \in keys(bow) : u32_le(bow.bow[key], bow'.bow[key])]_vars

\* C18 in a build with overflow checks, where an addition that does not fit
\* panics and leaves no map
C18_WithOverflowChecks ==
    overflow_checks =>
        (bow # Panic => \A key \in keys(bow) : bow.bow[key] # u32(0))

---------------------------------------------------------------------------
(* Degenerate fractions *)

\* the running sum n of text_spam_probability after each of its tokens
RunningSums(self, q) ==
    { sum_log_odds(self, SubSeq(words_of(to_uppercase(q)), 1, k), ln_zero) :
        k \in 0..Len(words_of(to_uppercase(q))) }

Scored == pc \in {"scored", "scored_loaded"}

\* C19: for every model, those read from a file with a count of 0 or a
\* total of 0 among them, no running sum of scoring is NaN and the score is
\* a number of [0, 1].
C19_DegeneracyAbsorbed ==
    Scored =>
        /\ \A n \in RunningSums(hs, query) : n # Panic /\ ~is_nan(n.exp)
        /\ InUnitInterval(prob)

\* the score is NaN exactly when a running sum of scoring is: nothing
\* between the sum and the result clamps it
C19_NaNOnlyFromSum ==
    Scored =>
        (is_nan(prob) <=> \E n \in RunningSums(hs, query) : is_nan(n.exp))

\* a fraction p of exactly 0 alone saturates the score to 0
C19_Saturates ==
    /\ pc = "scored_loaded"
    /\ query = <<"a">>
    /\ hs.spam_bow.bow[<<"A">>] = u32(0) /\ hs.ham_bow.bow[<<"A">>] = u32(1)
    /\ prob = f64_0

====
